---- MODULE Spec2Model ----
(***************************************************************************)
(* Model of server.js (the demo variant, from line 234 on): the            *)
(* express-session session store, the demo limiter, /register, /login,     *)
(* /logout, /demo-status and the /upload pipeline with its response        *)
(* sanitizer.                                                              *)
(*                                                                         *)
(* Text is modelled as a sequence of one-character strings, so that the    *)
(* string operations of the sanitizer (trim, replace, indexOf, substring,  *)
(* JSON.parse) are computed character by character.                        *)
(***************************************************************************)
EXTENDS Integers, Sequences, FiniteSets, TLC

(***************************************************************************)
(* Bounds of the model.                                                    *)
(***************************************************************************)
MaxRawLen == 3
MaxStrLen == 3
MaxSid == 2

(***************************************************************************)
(* Generic helpers.                                                        *)
(***************************************************************************)
Min(a, b) == IF a < b THEN a ELSE b
Max(a, b) == IF a > b THEN a ELSE b

RECURSIVE SeqsUpTo(_, _)
SeqsUpTo(S, n) ==
  IF n = 0 THEN {<<>>}
  ELSE LET shorter == SeqsUpTo(S, n - 1)
       IN  shorter \cup {Append(s, c) : s \in {t \in shorter : Len(t) = n - 1}, c \in S}

(***************************************************************************)
(* JavaScript string primitives used by the sanitizer (0-based indices,    *)
(* -1 for "not found", as in the source).                                  *)
(***************************************************************************)
Whitespace == {" ", "\n", "\t", "\r"}

\* String.prototype.trim
Trim(s) ==
  LET nonWs == {i \in 1..Len(s) : s[i] \notin Whitespace}
  IN  IF nonWs = {} THEN <<>>
      ELSE LET lo == CHOOSE i \in nonWs : \A j \in nonWs : i <= j
               hi == CHOOSE i \in nonWs : \A j \in nonWs : i >= j
           IN  SubSeq(s, lo, hi)

\* s has the text p at 1-based position i
HasAt(s, i, p) ==
  /\ i >= 1
  /\ i + Len(p) - 1 <= Len(s)
  /\ \A k \in 1..Len(p) : s[i + k - 1] = p[k]

\* String.prototype.startsWith
StartsWith(s, p) == HasAt(s, 1, p)

\* String.prototype.indexOf for a single character
IndexOf(s, c) ==
  LET hits == {i \in 1..Len(s) : s[i] = c}
  IN  IF hits = {} THEN -1
      ELSE (CHOOSE i \in hits : \A j \in hits : i <= j) - 1

\* String.prototype.lastIndexOf for a single character
LastIndexOf(s, c) ==
  LET hits == {i \in 1..Len(s) : s[i] = c}
  IN  IF hits = {} THEN -1
      ELSE (CHOOSE i \in hits : \A j \in hits : i >= j) - 1

\* String.prototype.substring(start, end): clamps both and swaps them when
\* start > end
Substring(s, start, end) ==
  LET a  == Min(Max(start, 0), Len(s))
      b  == Min(Max(end, 0), Len(s))
      lo == Min(a, b)
      hi == Max(a, b)
  IN  SubSeq(s, lo + 1, hi)

\* The backtick character (written as a token: the character itself cannot
\* appear in a string of this language)
BT == "BACKTICK"

Fence     == <<BT, BT, BT>>
FenceJson == <<BT, BT, BT, "j", "s", "o", "n">>

\* jsonText.replace with the global pattern "fence followed by json, or
\* fence", replaced by the empty string: one left-to-right pass, the longer
\* alternative tried first at each position
RECURSIVE ReplaceFencesFrom(_, _)
ReplaceFencesFrom(s, i) ==
  IF i > Len(s) THEN <<>>
  ELSE IF HasAt(s, i, FenceJson) THEN ReplaceFencesFrom(s, i + 7)
  ELSE IF HasAt(s, i, Fence) THEN ReplaceFencesFrom(s, i + 3)
  ELSE <<s[i]>> \o ReplaceFencesFrom(s, i + 1)

ReplaceFences(s) == ReplaceFencesFrom(s, 1)

(***************************************************************************)
(* JSON values: [t |-> tag, v |-> payload] with tag "num" (an integer),    *)
(* "str" (a text), "lit" ("null", "true" or "false"), "arr" (a sequence    *)
(* of values) or "obj" (a sequence of <<key text, value>> pairs in         *)
(* insertion order, keys unique).                                          *)
(***************************************************************************)
JNum(n) == [t |-> "num", v |-> n]
JStr(x) == [t |-> "str", v |-> x]
JLit(x) == [t |-> "lit", v |-> x]
JArr(x) == [t |-> "arr", v |-> x]
JObj(x) == [t |-> "obj", v |-> x]

Digits == <<"0", "1", "2", "3", "4", "5", "6", "7", "8", "9">>
IsDigit(c) == \E d \in 1..10 : Digits[d] = c
DigitVal(c) == (CHOOSE d \in 1..10 : Digits[d] = c) - 1

\* Result of a parsing step: the value and the position after it
POk(val, next) == [ok |-> TRUE, val |-> val, next |-> next]
PFail == [ok |-> FALSE, val |-> JLit("undefined"), next |-> 0]

JsonWs == {" ", "\n", "\t", "\r"}

RECURSIVE SkipWs(_, _)
SkipWs(s, i) ==
  IF i <= Len(s) /\ s[i] \in JsonWs THEN SkipWs(s, i + 1) ELSE i

\* The character a JSON escape \e stands for ("" when \e is not an escape
\* of one character; \uXXXX is outside the modelled texts)
Unescape(e) ==
  CASE e = "\"" -> "\""
    [] e = "\\" -> "\\"
    [] e = "/"  -> "/"
    [] e = "n"  -> "\n"
    [] e = "t"  -> "\t"
    [] e = "r"  -> "\r"
    [] OTHER    -> ""

\* Body of a string literal from position i (after the opening quote)
RECURSIVE ParseStringFrom(_, _, _)
ParseStringFrom(s, i, acc) ==
  IF i > Len(s) THEN PFail
  ELSE IF s[i] = "\"" THEN POk(JStr(acc), i + 1)
  ELSE IF s[i] = "\\" THEN
         IF i + 1 > Len(s) \/ Unescape(s[i + 1]) = "" THEN PFail
         ELSE ParseStringFrom(s, i + 2, Append(acc, Unescape(s[i + 1])))
  ELSE IF s[i] \in {"\n", "\t", "\r"} THEN PFail
  ELSE ParseStringFrom(s, i + 1, Append(acc, s[i]))

\* Digits of an integer from position i
RECURSIVE ParseDigitsFrom(_, _, _)
ParseDigitsFrom(s, i, acc) ==
  IF i <= Len(s) /\ IsDigit(s[i])
  THEN ParseDigitsFrom(s, i + 1, 10 * acc + DigitVal(s[i]))
  ELSE POk(JNum(acc), i)

\* An integer literal: optional minus, then 0 or a digit sequence without a
\* leading zero (fractions and exponents are outside the modelled texts)
ParseNumber(s, i) ==
  LET neg == s[i] = "-"
      j   == IF neg THEN i + 1 ELSE i
  IN  IF j > Len(s) \/ ~IsDigit(s[j]) THEN PFail
      ELSE IF s[j] = "0" THEN POk(JNum(0), j + 1)
      ELSE LET r == ParseDigitsFrom(s, j, 0)
           IN  POk(JNum(IF neg THEN 0 - r.val.v ELSE r.val.v), r.next)

\* Object property assignment: an existing key keeps its place and takes
\* the new value
PutMember(members, k, val) ==
  IF \E m \in 1..Len(members) : members[m][1] = k
  THEN [m \in 1..Len(members) |->
          IF members[m][1] = k THEN <<k, val>> ELSE members[m]]
  ELSE Append(members, <<k, val>>)

RECURSIVE ParseValue(_, _)
RECURSIVE ParseElements(_, _, _)
RECURSIVE ParseMembers(_, _, _)

\* Elements of an array, i at the start of an element
ParseElements(s, i, acc) ==
  LET e == ParseValue(s, SkipWs(s, i))
      j == SkipWs(s, e.next)
  IN  IF ~e.ok \/ j > Len(s) THEN PFail
      ELSE IF s[j] = "," THEN ParseElements(s, j + 1, Append(acc, e.val))
      ELSE IF s[j] = "]" THEN POk(JArr(Append(acc, e.val)), j + 1)
      ELSE PFail

\* Members of an object, i at the start of a member
ParseMembers(s, i, acc) ==
  LET k  == SkipWs(s, i)
      ks == IF k <= Len(s) /\ s[k] = "\"" THEN ParseStringFrom(s, k + 1, <<>>)
            ELSE PFail
      c  == SkipWs(s, ks.next)
      e  == IF ks.ok /\ c <= Len(s) /\ s[c] = ":"
            THEN ParseValue(s, SkipWs(s, c + 1)) ELSE PFail
      j  == SkipWs(s, e.next)
  IN  IF ~e.ok \/ j > Len(s) THEN PFail
      ELSE IF s[j] = ","
           THEN ParseMembers(s, j + 1, PutMember(acc, ks.val.v, e.val))
      ELSE IF s[j] = "}"
           THEN POk(JObj(PutMember(acc, ks.val.v, e.val)), j + 1)
      ELSE PFail

ParseValue(s, i) ==
  IF i > Len(s) THEN PFail
  ELSE IF s[i] = "{" THEN
         LET j == SkipWs(s, i + 1)
         IN  IF j <= Len(s) /\ s[j] = "}" THEN POk(JObj(<<>>), j + 1)
             ELSE ParseMembers(s, j, <<>>)
  ELSE IF s[i] = "[" THEN
         LET j == SkipWs(s, i + 1)
         IN  IF j <= Len(s) /\ s[j] = "]" THEN POk(JArr(<<>>), j + 1)
             ELSE ParseElements(s, j, <<>>)
  ELSE IF s[i] = "\"" THEN ParseStringFrom(s, i + 1, <<>>)
  ELSE IF s[i] = "-" \/ IsDigit(s[i]) THEN ParseNumber(s, i)
  ELSE IF HasAt(s, i, <<"n", "u", "l", "l">>) THEN POk(JLit("null"), i + 4)
  ELSE IF HasAt(s, i, <<"t", "r", "u", "e">>) THEN POk(JLit("true"), i + 4)
  ELSE IF HasAt(s, i, <<"f", "a", "l", "s", "e">>) THEN POk(JLit("false"), i + 5)
  ELSE PFail

\* JSON.parse: one value surrounded by optional whitespace, nothing else;
\* ok = FALSE stands for the SyntaxError it throws
JSONParse(s) ==
  LET r == ParseValue(s, SkipWs(s, 1))
  IN  IF r.ok /\ SkipWs(s, r.next) = Len(s) + 1
      THEN [ok |-> TRUE, val |-> r.val]
      ELSE [ok |-> FALSE, val |-> PFail.val]

(***************************************************************************)
(* JSON.stringify: the canonical serialization (no whitespace, members in  *)
(* insertion order, quotes, backslashes and control characters escaped).   *)
(***************************************************************************)
EscapeChar(c) ==
  CASE c = "\"" -> <<"\\", "\"">>
    [] c = "\\" -> <<"\\", "\\">>
    [] c = "\n" -> <<"\\", "n">>
    [] c = "\t" -> <<"\\", "t">>
    [] c = "\r" -> <<"\\", "r">>
    [] OTHER    -> <<c>>

RECURSIVE EscapeText(_)
EscapeText(x) ==
  IF x = <<>> THEN <<>> ELSE EscapeChar(Head(x)) \o EscapeText(Tail(x))

QuoteText(x) == <<"\"">> \o EscapeText(x) \o <<"\"">>

RECURSIVE NatText(_)
NatText(n) ==
  IF n < 10 THEN <<Digits[n + 1]>>
  ELSE Append(NatText(n \div 10), Digits[(n % 10) + 1])

RECURSIVE Stringify(_)
RECURSIVE StringifyElements(_, _)
RECURSIVE StringifyMembers(_, _)

StringifyElements(xs, i) ==
  IF i > Len(xs) THEN <<>>
  ELSE (IF i > 1 THEN <<",">> ELSE <<>>) \o Stringify(xs[i])
         \o StringifyElements(xs, i + 1)

StringifyMembers(ms, i) ==
  IF i > Len(ms) THEN <<>>
  ELSE (IF i > 1 THEN <<",">> ELSE <<>>) \o QuoteText(ms[i][1]) \o <<":">>
         \o Stringify(ms[i][2]) \o StringifyMembers(ms, i + 1)

Stringify(val) ==
  CASE val.t = "num" ->
         IF val.v < 0 THEN <<"-">> \o NatText(0 - val.v) ELSE NatText(val.v)
    [] val.t = "str" -> QuoteText(val.v)
    [] val.t = "lit" ->
         (CASE val.v = "null" -> <<"n", "u", "l", "l">>
            [] val.v = "true" -> <<"t", "r", "u", "e">>
            [] OTHER -> <<"f", "a", "l", "s", "e">>)
    [] val.t = "arr" -> <<"[">> \o StringifyElements(val.v, 1) \o <<"]">>
    [] OTHER -> <<"{">> \o StringifyMembers(val.v, 1) \o <<"}">>

(***************************************************************************)
(* The response sanitizer of /upload ("SAFE JSON EXTRACTION").             *)
(***************************************************************************)
\* if (jsonText.startsWith(fence)) jsonText = jsonText.replace(...).trim()
StripFence(jsonText) ==
  IF StartsWith(jsonText, Fence) THEN Trim(ReplaceFences(jsonText))
  ELSE jsonText

\* A slicer that cuts at the first closing brace instead of the last
SliceBracesFirstClose(jsonText) ==
  LET firstBrace == IndexOf(jsonText, "{")
      lastBrace  == IndexOf(jsonText, "}")
  IN  IF firstBrace # -1 /\ lastBrace # -1
      THEN Substring(jsonText, firstBrace, lastBrace + 1)
      ELSE jsonText

\* firstBrace / lastBrace and the substring between them
SliceBraces(jsonText) ==
  LET firstBrace == IndexOf(jsonText, "{")
      lastBrace  == LastIndexOf(jsonText, "}")
  IN  IF firstBrace # -1 /\ lastBrace # -1
      THEN Substring(jsonText, firstBrace, lastBrace + 1)
      ELSE jsonText

\* rawText -> the outcome of JSON.parse on the sanitized text
Sanitize(rawText) == JSONParse(SliceBraces(StripFence(Trim(rawText))))

(***************************************************************************)
(* The server.                                                             *)
(***************************************************************************)
DEMO_LIMIT == 3

\* Values of a request field
NoUser      == ""
UndefinedPw == "<undefined>"
Undefined   == -1

Usernames == {"alice", "bob"}
Passwords == {"pw1", "pw2"}

PDF   == "application/pdf"
DOCX  == "application/vnd.openxmlformats-officedocument.wordprocessingml.document"
PLAIN == "text/plain"

MsgDemoLimit   == "Demo limit reached. Please login or signup to continue."
MsgRequired    == "Username and password required"
MsgExists      == "User already exists or DB error"
MsgNotFound    == "User not found"
MsgInvalid     == "Invalid password"
MsgNoFile      == "No file uploaded"
MsgUnsupported == "Unsupported file format"
MsgFormat      == "AI response format error. Please retry."
MsgFailed      == "Analysis failed"

\* Completion texts the model draws from: every text over RawAlphabet up to
\* MaxRawLen characters, and a few longer ones
RawAlphabet == {"{", "}", "4", "[", "]", "\""}

NamedRawTexts ==
  { <<"n", "u", "l", "l">>,
    <<"{", "\"", "a", "\"", ":", "4", "}">>,
    <<BT, BT, BT, "j", "s", "o", "n", "\n", "{", "\"", "a", "\"", ":", "4", "}", "\n", BT, BT, BT>>,
    <<BT, BT, BT, "\n", "4", "\n", BT, BT, BT>>,
    <<"O", "K", " ", "{", "}", " ", "d", "o", "n", "e">> }

RawTexts == SeqsUpTo(RawAlphabet, MaxRawLen) \cup NamedRawTexts

\* A record as the prompt asks for it, a bare number, and a text that does
\* not parse
SampleRawTexts ==
  { <<"{", "\"", "a", "\"", ":", "4", "}">>, <<"4">>, <<"{">> }

\* What one specification lets the client do: how many requests may be in
\* flight at once and the inputs they are drawn from
Sequential ==
  [ inFlight  |-> 1,
    usernames |-> Usernames \cup {NoUser},
    passwords |-> Passwords \cup {"", UndefinedPw},
    mimes     |-> {PDF, DOCX, PLAIN},
    raw       |-> SampleRawTexts ]

\* Overlapping requests of one client
Concurrent ==
  [ inFlight  |-> 2,
    usernames |-> {"alice"},
    passwords |-> {"pw1"},
    mimes     |-> {PDF},
    raw       |-> {<<"{", "\"", "a", "\"", ":", "4", "}">>} ]

\* Uploads only, handled one after another, over every completion text
Uploading ==
  [ inFlight  |-> 1,
    usernames |-> {},
    passwords |-> {},
    mimes     |-> {PDF, DOCX, PLAIN},
    raw       |-> RawTexts ]

Slots == 1..2
Sids  == 1..MaxSid

VARIABLES
  users,       \* credential store: username -> password hash ("" = no row)
  store,       \* session store: sid -> session
  cookie,      \* the session id the client sends (0 = none)
  nextSid,     \* next unused session id
  reqs,        \* request slot -> the request in it
  demoAdmits,  \* history: unauthenticated uploads admitted since the last
               \* successful login (saturates at DEMO_LIMIT + 1)
  prevReject,  \* history, kept while requests are handled one after
               \* another: <<outcome, message>> of the latest rejected
               \* upload that has left its slot
  roundTrip    \* the sanitizer applied on its own: a record, the form its
               \* serialization is wrapped in, and the sanitizer's result

vars == <<users, store, cookie, nextSid, reqs, demoAdmits, prevReject, roundTrip>>

(***************************************************************************)
(* Sessions (express-session with its default MemoryStore: every request   *)
(* works on its own deserialized copy, written back when the response      *)
(* ends).                                                                  *)
(***************************************************************************)
Session(user, count) == [live |-> TRUE, user |-> user, demoCount |-> count]
FreshSession == Session(NoUser, Undefined)
NoSession == [live |-> FALSE, user |-> NoUser, demoCount |-> Undefined]

\* req.session.demoCount || 0
CountOrZero(sess) == IF sess.demoCount = Undefined THEN 0 ELSE sess.demoCount

\* bcrypt.hash / bcrypt.compare: compare(p, hash(q)) is true exactly for p = q
Hash(password) == <<"bcrypt", password>>
NoRow == <<>>

NoResp == [kind |-> "none", status |-> 0, success |-> FALSE, message |-> "",
           analysis |-> PFail.val, remainingTries |-> Undefined]

Json(status, success, message) ==
  [kind |-> "json", status |-> status, success |-> success, message |-> message,
   analysis |-> PFail.val, remainingTries |-> Undefined]

IdleReq ==
  [ kind |-> "none", pc |-> "idle", sid |-> 0, isNew |-> FALSE,
    orig |-> NoSession, sess |-> NoSession,
    username |-> NoUser, password |-> "", hash |-> NoRow,
    file |-> "none", mime |-> "", admitted |-> FALSE, extracted |-> FALSE,
    completionCalled |-> FALSE, hasRaw |-> FALSE, raw |-> <<>>,
    fault |-> "none", outcome |-> "none", resp |-> NoResp ]

NoRoundTrip == [pc |-> "idle", record |-> PFail.val, form |-> "none",
                out |-> [ok |-> FALSE, val |-> PFail.val]]

Active(q) == q.pc \notin {"idle", "done", "unhandled"}

InitServer ==
  /\ users = [u \in Usernames |-> NoRow]
  /\ store = [s \in Sids |-> NoSession]
  /\ cookie = 0
  /\ nextSid = 1
  /\ reqs = [r \in Slots |-> IdleReq]
  /\ demoAdmits = 0
  /\ prevReject = <<"none", "">>

Init ==
  /\ InitServer
  /\ roundTrip = NoRoundTrip

(***************************************************************************)
(* The session middleware.                                                 *)
(***************************************************************************)
HasSession == cookie # 0 /\ store[cookie].live

\* A request arrives in slot r: the session of its cookie is loaded, or a
\* new one is generated
Arrive(C, r, kind) ==
  /\ r <= C.inFlight
  /\ ~Active(reqs[r])
  /\ Cardinality({q \in Slots : Active(reqs[q])}) < C.inFlight
  /\ HasSession \/ nextSid <= MaxSid
  /\ UNCHANGED roundTrip
  /\ nextSid' = IF HasSession THEN nextSid ELSE nextSid + 1
  /\ prevReject' =
       IF C.inFlight = 1 /\ reqs[r].kind = "upload" /\ reqs[r].pc = "done"
          /\ reqs[r].outcome \notin {"success", "upload-error"}
       THEN <<reqs[r].outcome, reqs[r].resp.message>>
       ELSE prevReject

Arrived(kind) ==
  [ IdleReq EXCEPT
      !.kind  = kind,
      !.sid   = IF HasSession THEN cookie ELSE nextSid,
      !.isNew = ~HasSession,
      !.orig  = IF HasSession THEN store[cookie] ELSE FreshSession,
      !.sess  = IF HasSession THEN store[cookie] ELSE FreshSession ]

\* A write-back that counts on top of what the store holds at that moment
SessionToSaveAtomic(q, stored) ==
  IF q.kind = "upload" /\ q.admitted /\ q.orig.user = NoUser /\ stored.live
  THEN [q.sess EXCEPT !.demoCount = CountOrZero(stored) + 1]
  ELSE q.sess

\* What the end of a response writes to the session store: the request's own
\* copy, when it is new (saveUninitialized) or was modified
SessionToSave(q, stored) == q.sess

ShouldSave(q) == q.sess.live /\ (q.isNew \/ q.sess # q.orig)

\* res.end of request q (q is the request as it stands when it responds)
EndResponse(r, q, resp) ==
  /\ reqs' = [reqs EXCEPT ![r] = [q EXCEPT !.pc = "done", !.resp = resp]]
  /\ store' = IF ShouldSave(q)
              THEN [store EXCEPT ![q.sid] = SessionToSave(q, store[q.sid])]
              ELSE store
  /\ cookie' = IF q.sess.live /\ q.isNew THEN q.sid ELSE cookie

\* An awaited promise rejects outside any try block and the async handler's
\* promise rejects. What follows depends on the Express release in use:
\* nothing answers the request (4.x), or the rejection is passed to the
\* default error handler, which answers 500 with an error page (5.x)
Unhandled(r, q, fault) ==
  \/ /\ reqs' = [reqs EXCEPT ![r] = [q EXCEPT !.pc = "unhandled", !.fault = fault]]
     /\ UNCHANGED <<store, cookie>>
  \/ EndResponse(r, [q EXCEPT !.fault = fault],
                 [NoResp EXCEPT !.kind = "error", !.status = 500])

(***************************************************************************)
(* POST /register                                                          *)
(***************************************************************************)
\* !username || !password
RegisterInvalid(username, password) ==
  username = NoUser \/ password \in {"", UndefinedPw}

RegisterArrive(C, r) ==
  \E username \in C.usernames, password \in C.passwords :
    LET q == [Arrived("register") EXCEPT !.username = username,
                                         !.password = password]
    IN  /\ Arrive(C, r, "register")
        /\ UNCHANGED <<users, demoAdmits>>
        /\ IF RegisterInvalid(username, password)
           THEN EndResponse(r, q, Json(200, FALSE, MsgRequired))
           ELSE /\ reqs' = [reqs EXCEPT ![r] = [q EXCEPT !.pc = "insert"]]
                /\ UNCHANGED <<store, cookie>>

\* bcrypt.hash, then the insert: the store rejects a username it already
\* holds, and may fail for reasons of its own; both end in the catch block
RegisterInsert(C, r) ==
  LET q == reqs[r]
  IN  /\ q.kind = "register" /\ q.pc = "insert"
      /\ UNCHANGED <<nextSid, demoAdmits, prevReject, roundTrip>>
      /\ \E storeFails \in BOOLEAN :
           IF storeFails \/ users[q.username] # NoRow
           THEN /\ EndResponse(r, [q EXCEPT !.fault =
                      IF storeFails THEN "store-error" ELSE "none"],
                      Json(200, FALSE, MsgExists))
                /\ UNCHANGED users
           ELSE /\ users' = [users EXCEPT ![q.username] = Hash(q.password)]
                /\ EndResponse(r, q, Json(200, TRUE, ""))

(***************************************************************************)
(* POST /login                                                             *)
(***************************************************************************)
\* A login that accepts any password of a registered user
LoginOutcomeNoCheck(data, password) ==
  IF data = NoRow THEN "not-found"
  ELSE IF password = UndefinedPw THEN "throws"
  ELSE "ok"

\* The branches of the handler on the row the lookup returned (data) and
\* the submitted password; bcrypt.compare rejects when the password is
\* undefined
LoginOutcome(data, password) ==
  IF data = NoRow THEN "not-found"
  ELSE IF password = UndefinedPw THEN "throws"
  ELSE IF data # Hash(password) THEN "invalid"
  ELSE "ok"

LoginArrive(C, r) ==
  \E username \in C.usernames, password \in C.passwords :
    /\ Arrive(C, r, "login")
    /\ reqs' = [reqs EXCEPT ![r] =
                  [Arrived("login") EXCEPT !.username = username,
                                           !.password = password,
                                           !.pc = "lookup"]]
    /\ UNCHANGED <<users, store, cookie, demoAdmits>>

\* The lookup resolves: with the row, or with data null (no row, or an error
\* of the store, which the handler does not look at)
LoginLookup(C, r) ==
  LET q == reqs[r]
  IN  /\ q.kind = "login" /\ q.pc = "lookup"
      /\ UNCHANGED <<users, nextSid, demoAdmits, prevReject, roundTrip>>
      /\ \E answer \in {"data", "error"} :
           LET data == IF answer = "data" /\ q.username \in Usernames
                       THEN users[q.username] ELSE NoRow
               qf   == [q EXCEPT !.fault = IF answer = "error"
                                           THEN "store-error" ELSE "none"]
           IN  IF LoginOutcome(data, q.password) = "not-found"
               THEN EndResponse(r, qf, Json(200, FALSE, MsgNotFound))
               ELSE /\ reqs' = [reqs EXCEPT ![r] =
                         [q EXCEPT !.pc = "compare", !.hash = data]]
                    /\ UNCHANGED <<store, cookie>>

\* bcrypt.compare settles
LoginCompare(C, r) ==
  LET q == reqs[r]
      outcome == LoginOutcome(q.hash, q.password)
  IN  /\ q.kind = "login" /\ q.pc = "compare"
      /\ UNCHANGED <<users, nextSid, prevReject, roundTrip>>
      /\ CASE outcome = "throws" ->
                /\ Unhandled(r, q, "compare-throw")
                /\ UNCHANGED demoAdmits
           [] outcome = "invalid" ->
                /\ EndResponse(r, q, Json(200, FALSE, MsgInvalid))
                /\ UNCHANGED demoAdmits
           [] OTHER ->
                /\ EndResponse(r,
                     [q EXCEPT !.sess = [q.sess EXCEPT !.user = q.username,
                                                       !.demoCount = 0]],
                     Json(200, TRUE, ""))
                /\ demoAdmits' = 0

(***************************************************************************)
(* GET /logout and GET /demo-status                                        *)
(***************************************************************************)
\* req.session.destroy, then the redirect; nothing is saved for a destroyed
\* session and no cookie is set
Logout(C, r) ==
  LET q == Arrived("logout")
  IN  /\ Arrive(C, r, "logout")
      /\ reqs' = [reqs EXCEPT ![r] =
           [q EXCEPT !.pc = "done", !.sess = NoSession,
                     !.resp = [NoResp EXCEPT !.kind = "redirect", !.status = 302]]]
      /\ store' = [store EXCEPT ![q.sid] = NoSession]
      /\ UNCHANGED <<users, cookie, demoAdmits>>

\* Math.max(0, DEMO_LIMIT - count), null (Undefined) for a logged-in session
RemainingTries(sess) ==
  IF sess.user # NoUser THEN Undefined
  ELSE Max(0, DEMO_LIMIT - CountOrZero(sess))

DemoStatus(C, r) ==
  LET q == Arrived("demo-status")
  IN  /\ Arrive(C, r, "demo-status")
      /\ EndResponse(r, q,
           [NoResp EXCEPT !.kind = "json", !.status = 200,
                          !.remainingTries = RemainingTries(q.sess)])
      /\ UNCHANGED <<users, demoAdmits>>

(***************************************************************************)
(* POST /upload: demoLimiter, multer, the handler                          *)
(***************************************************************************)
\* A limiter that admits without counting
demoLimiterNoCount(sess) ==
  IF sess.user # NoUser THEN [admit |-> TRUE, sess |-> sess]
  ELSE IF CountOrZero(sess) >= DEMO_LIMIT THEN [admit |-> FALSE, sess |-> sess]
  ELSE [admit |-> TRUE, sess |-> sess]

\* demoLimiter on the request's session: whether next() is called, and the
\* session afterwards
demoLimiter(sess) ==
  IF sess.user # NoUser THEN [admit |-> TRUE, sess |-> sess]
  ELSE LET s0 == [sess EXCEPT !.demoCount = CountOrZero(sess)]
       IN  IF s0.demoCount >= DEMO_LIMIT
           THEN [admit |-> FALSE, sess |-> s0]
           ELSE [admit |-> TRUE,
                 sess |-> [s0 EXCEPT !.demoCount = s0.demoCount + 1]]

UploadArrive(C, r) ==
  LET q   == Arrived("upload")
      lim == demoLimiter(q.sess)
  IN  /\ Arrive(C, r, "upload")
      /\ UNCHANGED users
      /\ IF lim.admit
         THEN /\ reqs' = [reqs EXCEPT ![r] =
                   [q EXCEPT !.sess = lim.sess, !.admitted = TRUE, !.pc = "multer"]]
              /\ demoAdmits' = IF q.sess.user = NoUser
                               THEN Min(demoAdmits + 1, DEMO_LIMIT + 1)
                               ELSE demoAdmits
              /\ UNCHANGED <<store, cookie>>
         ELSE /\ EndResponse(r, [q EXCEPT !.sess = lim.sess, !.outcome = "quota"],
                   Json(401, FALSE, MsgDemoLimit))
              /\ UNCHANGED demoAdmits

\* A branch that sends every other type down the PDF path
MimeBranchLax(mimetype) ==
  IF mimetype = DOCX THEN "docx" ELSE "pdf"

\* The branch of the handler a declared MIME type selects
MimeBranch(mimetype) ==
  IF mimetype = PDF THEN "pdf"
  ELSE IF mimetype = DOCX THEN "docx"
  ELSE "unsupported"

\* A table that answers a format error with the catch-all message
UploadMessageMerged(outcome) ==
  CASE outcome = "quota"             -> MsgDemoLimit
    [] outcome = "no-file"           -> MsgNoFile
    [] outcome = "unsupported"       -> MsgUnsupported
    [] outcome = "extraction-failed" -> MsgFailed
    [] outcome = "completion-failed" -> MsgFailed
    [] outcome = "format-error"      -> MsgFailed
    [] OTHER                         -> ""

\* The user-facing message of each kind of rejection
UploadMessage(outcome) ==
  CASE outcome = "quota"             -> MsgDemoLimit
    [] outcome = "no-file"           -> MsgNoFile
    [] outcome = "unsupported"       -> MsgUnsupported
    [] outcome = "extraction-failed" -> MsgFailed
    [] outcome = "completion-failed" -> MsgFailed
    [] outcome = "format-error"      -> MsgFormat
    [] OTHER                         -> ""

Reject(r, q, outcome) ==
  EndResponse(r, [q EXCEPT !.outcome = outcome],
              Json(200, FALSE, UploadMessage(outcome)))

\* multer has parsed the body (or failed: Express's error handler answers
\* 500); the handler runs up to its first await (fs.readFileSync may throw
\* into the catch block on the way)
UploadMulter(C, r) ==
  LET q == reqs[r]
  IN  /\ q.kind = "upload" /\ q.pc = "multer"
      /\ UNCHANGED <<users, nextSid, demoAdmits, prevReject, roundTrip>>
      /\ \/ EndResponse(r, [q EXCEPT !.outcome = "upload-error"],
              [NoResp EXCEPT !.kind = "error", !.status = 500])
         \/ Reject(r, q, "no-file")
         \/ \E mimetype \in C.mimes :
              LET qf == [q EXCEPT !.file = "tmp", !.mime = mimetype]
              IN  IF MimeBranch(mimetype) = "unsupported"
                  THEN Reject(r, qf, "unsupported")
                  ELSE \/ /\ reqs' = [reqs EXCEPT ![r] = [qf EXCEPT !.pc = "extract"]]
                          /\ UNCHANGED <<store, cookie>>
                       \/ /\ MimeBranch(mimetype) = "pdf"
                          /\ Reject(r, [qf EXCEPT !.fault = "read-throw"],
                                    "extraction-failed")

\* pdfParse / mammoth settles; on success the temporary file is unlinked
\* and the completion service is called
UploadExtract(C, r) ==
  LET q == reqs[r]
  IN  /\ q.kind = "upload" /\ q.pc = "extract"
      /\ UNCHANGED <<users, nextSid, demoAdmits, prevReject, roundTrip>>
      /\ \/ Reject(r, [q EXCEPT !.fault = "extract-throw"], "extraction-failed")
         \/ /\ reqs' = [reqs EXCEPT ![r] =
                 [q EXCEPT !.extracted = TRUE, !.file = "removed",
                           !.completionCalled = TRUE, !.pc = "complete"]]
            /\ UNCHANGED <<store, cookie>>

\* generateContent settles; the text is sanitized and the request answered
UploadComplete(C, r) ==
  LET q == reqs[r]
  IN  /\ q.kind = "upload" /\ q.pc = "complete"
      /\ UNCHANGED <<users, nextSid, demoAdmits, prevReject, roundTrip>>
      /\ \/ Reject(r, [q EXCEPT !.fault = "complete-throw"], "completion-failed")
         \/ \E rawText \in C.raw :
              LET parsed == Sanitize(rawText)
                  qr     == [q EXCEPT !.hasRaw = TRUE, !.raw = rawText]
              IN  IF ~parsed.ok
                  THEN Reject(r, qr, "format-error")
                  ELSE EndResponse(r, [qr EXCEPT !.outcome = "success"],
                         [Json(200, TRUE, "") EXCEPT
                            !.analysis = parsed.val,
                            !.remainingTries = RemainingTries(q.sess)])

(***************************************************************************)
(* Specifications.                                                         *)
(***************************************************************************)
Handle(C) ==
  \E r \in Slots :
    \/ RegisterArrive(C, r)
    \/ RegisterInsert(C, r)
    \/ LoginArrive(C, r)
    \/ LoginLookup(C, r)
    \/ LoginCompare(C, r)
    \/ Logout(C, r)
    \/ DemoStatus(C, r)
    \/ UploadArrive(C, r)
    \/ UploadMulter(C, r)
    \/ UploadExtract(C, r)
    \/ UploadComplete(C, r)

\* Requests handled one after another
Next == Handle(Sequential)

Spec == Init /\ [][Next]_vars

\* The upload pipeline alone
NextUpload ==
  \E r \in Slots :
    \/ UploadArrive(Uploading, r)
    \/ UploadMulter(Uploading, r)
    \/ UploadExtract(Uploading, r)
    \/ UploadComplete(Uploading, r)

SpecUpload == Init /\ [][NextUpload]_vars

\* Requests of one client that may overlap: uploads, /logout, /demo-status
NextConc ==
  \E r \in Slots :
    \/ UploadArrive(Concurrent, r)
    \/ UploadMulter(Concurrent, r)
    \/ UploadExtract(Concurrent, r)
    \/ UploadComplete(Concurrent, r)
    \/ Logout(Concurrent, r)
    \/ DemoStatus(Concurrent, r)

SpecConc == Init /\ [][NextConc]_vars

(***************************************************************************)
(* The sanitizer on serialized records.                                    *)
(***************************************************************************)
\* Characters of the string values: the fence character, braces, the two
\* characters the serialization escapes, and a letter
StrAlphabet == {BT, "{", "}", "\"", "\\", "a"}

KeyScore     == <<"a", "t", "s", "_", "s", "c", "o", "r", "e">>
KeyStrengths == <<"s", "t", "r", "e", "n", "g", "t", "h", "s">>

\* Structured records {"ats_score": n, "strengths": [x]}
Records ==
  { JObj(<< <<KeyScore, JNum(n)>>, <<KeyStrengths, JArr(<<JStr(x)>>)>> >>) :
      n \in {0, 80}, x \in SeqsUpTo(StrAlphabet, MaxStrLen) }

Forms == {"plain", "fenced", "prose"}

Prose == <<"H", "e", "r", "e", " ", "i", "s", " ", "t", "h", "e", " ",
           "r", "e", "s", "u", "l", "t", ":">>

\* The raw text of each form around a serialization
Wrap(form, text) ==
  LET fenced == FenceJson \o <<"\n">> \o text \o <<"\n">> \o Fence
  IN  CASE form = "plain"  -> text
        [] form = "fenced" -> fenced
        [] OTHER           -> Prose \o <<"\n">> \o fenced

InitSan ==
  /\ InitServer
  /\ roundTrip \in { [NoRoundTrip EXCEPT !.pc = "pending", !.record = rec,
                                         !.form = form] :
                       rec \in Records, form \in Forms }

ApplySanitizer ==
  /\ roundTrip.pc = "pending"
  /\ roundTrip' = [roundTrip EXCEPT
        !.pc  = "done",
        !.out = Sanitize(Wrap(roundTrip.form, Stringify(roundTrip.record)))]
  /\ UNCHANGED <<users, store, cookie, nextSid, reqs, demoAdmits, prevReject>>

NextSan == ApplySanitizer

SpecSan == InitSan /\ [][NextSan]_vars

(***************************************************************************)
(* Properties.                                                             *)
(***************************************************************************)
DoneUpload(q) == q.kind = "upload" /\ q.pc = "done"

\* C1: for one client and requests handled one after another, once three
\* unauthenticated uploads have been admitted every further unauthenticated
\* upload is rejected until a successful login: no fourth unauthenticated
\* upload is admitted since the last successful login, whatever /logout and
\* /demo-status requests come in between.
C1_DemoLimitHoldsUntilLogin == demoAdmits <= DEMO_LIMIT

\* C2: every answered upload whose handler reached the MIME-type branch (a
\* temporary file exists) has had its temporary file removed by the time it
\* is answered, on every exit path.
C2_TempFileRemoved ==
  \A r \in Slots :
    (DoneUpload(reqs[r]) /\ reqs[r].file # "none") => reqs[r].file = "removed"

\* C3: every /register, /login and /upload request ends with a response: no
\* failure of a collaborator leaves a request unanswered as an unhandled
\* fault of its handler, and a request a collaborator failed on is answered
\* with a JSON body that has success:false and a message.
C3_EveryRequestAnswered ==
  \A r \in Slots :
    LET q == reqs[r]
    IN  q.kind \in {"register", "login", "upload"} =>
          /\ q.pc # "unhandled"
          /\ (q.pc = "done" /\ q.fault # "none") =>
               /\ q.resp.kind = "json"
               /\ ~q.resp.success
               /\ q.resp.message # ""

\* C4: an answered upload has raised the session's demoCount by exactly one
\* when it was unauthenticated and admitted, whatever its outcome
\* downstream, and has left demoCount as it was when it was authenticated
\* or rejected for quota (so it never lowers it).
C4_UploadCountsOnce ==
  \A r \in Slots :
    LET q == reqs[r]
    IN  DoneUpload(q) =>
          IF q.admitted /\ q.orig.user = NoUser
          THEN /\ store[q.sid].live
               /\ store[q.sid].demoCount = CountOrZero(q.orig) + 1
          ELSE store[q.sid].demoCount = q.orig.demoCount

\* An unauthenticated upload that was admitted, failed in the completion call
\* and still counted
C4_Witness ==
  \E r \in Slots :
    /\ DoneUpload(reqs[r])
    /\ reqs[r].outcome = "completion-failed"
    /\ reqs[r].orig.user = NoUser
    /\ reqs[r].orig.demoCount = 2
    /\ store[reqs[r].sid].demoCount = 3

\* C5: an answered login whose lookup the store answered succeeds exactly
\* when the username is registered and the password matches its hash; it
\* then holds that identity with demoCount 0. An unregistered username is
\* answered "User not found", a wrong password with another message, and
\* both leave the session's identity and demoCount as they were.
C5_LoginIffCredentials ==
  \A r \in Slots :
    LET q          == reqs[r]
        registered == q.username \in Usernames /\ users[q.username] # NoRow
        matches    == registered /\ users[q.username] = Hash(q.password)
        unchanged  == /\ store[q.sid].user = q.orig.user
                      /\ store[q.sid].demoCount = q.orig.demoCount
    IN  (q.kind = "login" /\ q.pc = "done" /\ q.fault = "none") =>
          /\ q.resp.success <=> matches
          /\ matches => store[q.sid] = Session(q.username, 0)
          /\ ~registered => q.resp.message = MsgNotFound /\ unchanged
          /\ (registered /\ ~matches) =>
               /\ q.resp.message \notin {MsgNotFound, ""}
               /\ unchanged

\* A login that succeeded on a session that had used up its demo quota
C5_Witness ==
  \E r \in Slots :
    /\ reqs[r].kind = "login" /\ reqs[r].pc = "done"
    /\ reqs[r].resp.success
    /\ reqs[r].orig.demoCount = DEMO_LIMIT
    /\ store[reqs[r].sid] = Session(reqs[r].username, 0)

\* A { somewhere before a }
HasBracePair(text) ==
  \E i, j \in 1..Len(text) : i < j /\ text[i] = "{" /\ text[j] = "}"

\* C6: an upload whose completion text contains no pair of { and } is
\* answered success:false with the format-error message, never success:true.
C6_NoBracesIsFormatError ==
  \A r \in Slots :
    (DoneUpload(reqs[r]) /\ reqs[r].hasRaw /\ ~HasBracePair(reqs[r].raw)) =>
      /\ ~reqs[r].resp.success
      /\ reqs[r].resp.message = MsgFormat

\* C7: the completion service is called only for an admitted upload whose
\* text extraction succeeded; an upload whose file has a declared type other
\* than PDF or DOCX is answered success:false "Unsupported file format" and
\* the completion service is not called for it.
C7_CompletionOnlyAfterExtraction ==
  \A r \in Slots :
    LET q == reqs[r]
    IN  /\ q.completionCalled =>
             (q.admitted /\ q.extracted /\ q.mime \in {PDF, DOCX})
        /\ (q.kind = "upload" /\ q.file # "none" /\ q.mime \notin {PDF, DOCX}) =>
             /\ q.pc = "done"
             /\ q.resp.kind = "json"
             /\ ~q.resp.success
             /\ q.resp.message = MsgUnsupported
             /\ ~q.completionCalled

\* An answered upload of a text/plain file
C7_Witness ==
  \E r \in Slots :
    /\ DoneUpload(reqs[r])
    /\ reqs[r].admitted
    /\ reqs[r].mime = PLAIN
    /\ reqs[r].resp.message = MsgUnsupported

RejectionKinds ==
  {"quota", "unsupported", "extraction-failed", "completion-failed", "format-error"}

FailedPair == {"extraction-failed", "completion-failed"}

\* Two rejected uploads of different kinds: the one answered in slot r and
\* the latest one answered before it
TwoRejections(r) ==
  /\ DoneUpload(reqs[r])
  /\ reqs[r].outcome \in RejectionKinds
  /\ prevReject[1] \in RejectionKinds
  /\ reqs[r].outcome # prevReject[1]

\* C8 as stated: every upload ends in one outcome, and two rejections of
\* different kinds (quota, unsupported format, extraction failed, completion
\* failed, format error) never carry the same message.
C8_EveryRejectionKindDistinct ==
  \A r \in Slots :
    /\ DoneUpload(reqs[r]) => reqs[r].outcome # "none" /\ reqs[r].resp.kind # "none"
    /\ TwoRejections(r) => reqs[r].resp.message # prevReject[2]

\* C8 amended: every upload ends in one outcome; two rejections of different
\* kinds carry different messages unless they are extraction failed and
\* completion failed, which both carry "Analysis failed".
C8_RejectionsDistinctButFailed ==
  \A r \in Slots :
    /\ DoneUpload(reqs[r]) => reqs[r].outcome # "none" /\ reqs[r].resp.kind # "none"
    /\ TwoRejections(r) =>
         IF {reqs[r].outcome, prevReject[1]} = FailedPair
         THEN reqs[r].resp.message = MsgFailed /\ prevReject[2] = MsgFailed
         ELSE reqs[r].resp.message # prevReject[2]

\* A format error answered after a completion failure
C8_Witness ==
  \E r \in Slots :
    /\ TwoRejections(r)
    /\ reqs[r].outcome = "format-error"
    /\ prevReject[1] = "completion-failed"

\* The string value of a record of Records
StringOf(rec) == rec.v[2][2].v[1].v

ContainsFence(text) == \E i \in 1..Len(text) : HasAt(text, i, Fence)

\* C9 as stated: for every record, whatever its string values contain, the
\* sanitizer returns the record from its serialization, from the fenced
\* serialization and from the fenced serialization after prose.
C9_RoundTripEveryForm ==
  roundTrip.pc = "done" =>
    roundTrip.out.ok /\ roundTrip.out.val = roundTrip.record

\* C9 amended: the sanitizer returns the record from its serialization and
\* from the fenced serialization after prose, whatever its string values
\* contain, and from the fenced serialization alone when no string value
\* contains the fence marker.
C9_RoundTripUnlessFenceInString ==
  ( /\ roundTrip.pc = "done"
    /\ roundTrip.form = "fenced" => ~ContainsFence(StringOf(roundTrip.record)) )
  => (roundTrip.out.ok /\ roundTrip.out.val = roundTrip.record)

\* A record whose string value holds the fence marker, recovered from the
\* fenced serialization after prose
C9_Witness ==
  /\ roundTrip.pc = "done"
  /\ roundTrip.form = "prose"
  /\ ContainsFence(StringOf(roundTrip.record))
  /\ roundTrip.out.ok
  /\ roundTrip.out.val = roundTrip.record

\* C10: the demo counter is a read-modify-write on the request's own copy
\* of the session: when an admitted unauthenticated upload is answered, the
\* count written to the store is the count the request loaded plus one,
\* whatever the store holds by then; overlapping uploads can so be admitted
\* more than DEMO_LIMIT times without a login.
C10_WriteBackOfOwnCopy ==
  [][ \A r \in Slots :
        ( /\ reqs[r].kind = "upload" /\ Active(reqs[r])
          /\ reqs'[r].pc = "done"
          /\ reqs[r].admitted /\ reqs[r].orig.user = NoUser )
        => store'[reqs[r].sid].demoCount = CountOrZero(reqs[r].orig) + 1 ]_vars

\* One session only, four unauthenticated uploads admitted and answered
\* without a login, and a stored count of at most DEMO_LIMIT
C10_Witness ==
  /\ nextSid = 2
  /\ demoAdmits > DEMO_LIMIT
  /\ \A r \in Slots : DoneUpload(reqs[r]) /\ reqs[r].sid = 1
  /\ store[1].live
  /\ store[1].demoCount <= DEMO_LIMIT

====
